---- MODULE Spec2Model ----
(***************************************************************************)
(* A model of server/index.js of BalloonMap: the schema-tolerant           *)
(* normalisation pipeline (flatten, findByKeys, latLonFromGeo,             *)
(* normalizeTuple, normalizeObject, explodeBodyToRecords, dedup), the      *)
(* source fetcher fetchWindborne24h, the enrichment stage enrich, and the  *)
(* process-wide cache written by warm() and by GET /api/data.              *)
(*                                                                         *)
(* Conventions.                                                            *)
(*  - Time values are counted in hours (3 600 000 ms), so that the bucket  *)
(*    offset hour*3600*1000 of normalizeTuple is the integer hour.         *)
(*  - A JavaScript value is a record [t, n, s] (scalars) or [t, a]         *)
(*    (arrays) or [t, o] (objects, a sequence of <<key, value>> entries    *)
(*    in insertion order).                                                 *)
(*  - Each component has its own specification (SpecDedup, SpecEnrich,     *)
(*    SpecCache, SpecNormalize, SpecFetch); the variables of the other     *)
(*    components stay at their idle values.                                *)
(***************************************************************************)
EXTENDS Integers, Sequences, FiniteSets, TLC

VARIABLES
  dIn, dOut, dPc,           \* dedup: argument, return value, position
  ePoints,                  \* enrich: the argument array
  ePc,                      \* enrich: "ready", "awaiting" (Promise.all), "done"
  eI,                       \* enrich: the loop index i
  eBatch,                   \* enrich: the current batch
  eTask,                    \* per batch position: "wind", "air", "done"
  eMid,                     \* per batch position: what withWind returned
  eEnriched,                \* per batch position: what withAir returned
  eOut,                     \* enrich: the out array
  eStarted,                 \* history: indices whose lookups were started
  eWindResp, eAirResp,      \* history: what each service answered per index
  clock,                    \* Date.now(), in ticks
  enableEnrich,             \* ENABLE_ENRICH
  cache,                    \* let cache = { time, points }
  nextWarmAt,               \* when setInterval(warm, CACHE_MS) is next due
  job,                      \* per warm cycle and per request: position, locals
  written,                  \* history: the entry each job stored, if any
  nRec, nOut, nPc,          \* normalizeObject: argument, result, position
  fNow,                     \* fetchWindborne24h: Date.now() while it runs
  fResults,                 \* per bucket index: the settled outcome of its get
  fPc,                      \* "awaiting" (Promise.allSettled), "fulfilled", "rejected"
  fRet                      \* what fetchWindborne24h(true) returned

dedupVars == <<dIn, dOut, dPc>>
enrichVars == <<ePoints, ePc, eI, eBatch, eTask, eMid, eEnriched, eOut,
                eStarted, eWindResp, eAirResp>>
cacheVars == <<clock, enableEnrich, cache, nextWarmAt, job, written>>
normVars == <<nRec, nOut, nPc>>
fetchVars == <<fNow, fResults, fPc, fRet>>
vars == <<dedupVars, enrichVars, cacheVars, normVars, fetchVars>>

(***************************************************************************)
(* Generic helpers                                                         *)
(***************************************************************************)
Abs(x) == IF x < 0 THEN -x ELSE x

Min(a, b) == IF a < b THEN a ELSE b

\* All sequences over S of length at most n.
SeqsUpTo(S, n) == UNION {[1..k -> S] : k \in 0..n}

(***************************************************************************)
(* JavaScript values                                                       *)
(***************************************************************************)
Null == [t |-> "null", n |-> 0, s |-> ""]
Undefined == [t |-> "undef", n |-> 0, s |-> ""]
NaN == [t |-> "nan", n |-> 0, s |-> ""]
Num(k) == [t |-> "num", n |-> k, s |-> ""]
Str(x) == [t |-> "str", n |-> 0, s |-> x]
Bool(b) == [t |-> "bool", n |-> IF b THEN 1 ELSE 0, s |-> ""]
Arr(items) == [t |-> "arr", a |-> items]
Obj(entries) == [t |-> "obj", o |-> entries]

\* A finite double whose magnitude is beyond the Date range (such as 1e300
\* or -1e300); sign is 1 or -1.
Huge(sign) == [t |-> "huge", n |-> sign, s |-> ""]

\* v == null
IsNullish(v) == v.t \in {"null", "undef"}

\* Array.isArray(v)
IsArray(v) == v.t = "arr"

\* v && typeof v === 'object'
IsObjectLike(v) == v.t \in {"arr", "obj"}

\* Number.isFinite(v)
NumberIsFinite(v) == v.t \in {"num", "huge"}

\* The truthiness of v.
Truthy(v) ==
  CASE v.t \in {"null", "undef", "nan"} -> FALSE
    [] v.t \in {"num", "bool"} -> v.n # 0
    [] v.t = "str" -> v.s # ""
    [] OTHER -> TRUE

\* Math.abs(v) > limit, for a finite v
AbsGreater(v, limit) == v.t = "huge" \/ Abs(v.n) > limit

\* Math.abs(v) <= limit, for a finite v
AbsAtMost(v, limit) == ~AbsGreater(v, limit)

\* The numeric strings among the string values of the explored records.
StringToNumber(x) ==
  CASE x = "" -> Num(0)
    [] x = "12" -> Num(12)
    [] x = "50" -> Num(50)
    [] x = "10" -> Num(10)
    [] x = "100" -> Num(100)
    [] OTHER -> NaN

\* Number(v), +v
ToNumber(v) ==
  CASE v.t = "null" -> Num(0)
    [] v.t = "undef" -> NaN
    [] v.t = "bool" -> Num(v.n)
    [] v.t \in {"num", "huge", "nan"} -> v
    [] v.t = "str" -> StringToNumber(v.s)
    [] v.t = "arr" ->
         IF Len(v.a) = 0 THEN Num(0)
         ELSE IF Len(v.a) = 1 /\ v.a[1].t \in {"num", "huge", "nan"} THEN v.a[1]
         ELSE IF Len(v.a) = 1 /\ v.a[1].t = "str" THEN StringToNumber(v.a[1].s)
         ELSE IF Len(v.a) = 1 /\ IsNullish(v.a[1]) THEN Num(0)
         ELSE NaN
    [] OTHER -> NaN

\* String(v), for the scalars an id may be
ToStr(v) ==
  CASE v.t = "str" -> v.s
    [] v.t = "num" -> ToString(v.n)
    [] v.t = "bool" -> IF v.n = 1 THEN "true" ELSE "false"
    [] v.t = "huge" -> IF v.n > 0 THEN "1e+300" ELSE "-1e+300"
    [] v.t = "nan" -> "NaN"
    [] v.t = "null" -> "null"
    [] OTHER -> "undefined"

\* Date.parse(x), in hours since the epoch, for the date strings explored.
DateParse(x) ==
  CASE x = "2023-11-14T22:00:00Z" -> Num(472222)
    [] OTHER -> NaN

\* x.split(',')
SplitComma(x) ==
  CASE x = "50,10" -> <<"50", "10">>
    [] x = "100,50" -> <<"100", "50">>
    [] x = "abc,12" -> <<"abc", "12">>
    [] OTHER -> <<x>>

\* k.toLowerCase(), for the keys explored (all others are in lower case).
ToLowerCase(k) ==
  CASE k = "ID" -> "id"
    [] k = "balloonId" -> "balloonid"
    [] k = "recordedAt" -> "recordedat"
    [] k = "LAT" -> "lat"
    [] k = "Lon" -> "lon"
    [] k = "Elevation" -> "elevation"
    [] k = "TimeStamp" -> "timestamp"
    [] OTHER -> k

\* /\b(time|timestamp|ts|datetime)\b/i.test(k), for the flat keys explored.
MatchesTimeWord(k) ==
  k \in {"time", "timestamp", "ts", "datetime", "TimeStamp", "meta.time"}

(***************************************************************************)
(* Record Flattener and Field Resolver                                     *)
(***************************************************************************)
\* A flat mapping is a sequence of <<key, scalar>> in insertion order.
RECURSIVE FlatIndex(_, _, _)
FlatIndex(flat, k, i) ==
  IF i > Len(flat) THEN 0
  ELSE IF flat[i][1] = k THEN i
  ELSE FlatIndex(flat, k, i + 1)

\* flat[k]
FlatGet(flat, k) ==
  LET i == FlatIndex(flat, k, 1) IN IF i = 0 THEN Undefined ELSE flat[i][2]

\* out[prefix] = obj
FlatSet(flat, k, v) ==
  LET i == FlatIndex(flat, k, 1) IN
  IF i = 0 THEN Append(flat, <<k, v>>) ELSE [flat EXCEPT ![i] = <<k, v>>]

\* `${prefix}${prefix ? '.' : ''}${k}`
JoinKey(prefix, k) == prefix \o (IF prefix = "" THEN "" ELSE ".") \o k

RECURSIVE flatten(_, _, _)
RECURSIVE flattenItems(_, _, _, _)
RECURSIVE flattenEntries(_, _, _, _)

\* obj.forEach((v, i) => flatten(v, `${prefix}.${i}`, out))
flattenItems(items, i, prefix, out) ==
  IF i > Len(items) THEN out
  ELSE flattenItems(items, i + 1, prefix,
                    flatten(items[i], JoinKey(prefix, ToString(i - 1)), out))

\* for (const [k, v] of Object.entries(obj)) flatten(v, `${prefix}.${k}`, out)
flattenEntries(entries, i, prefix, out) ==
  IF i > Len(entries) THEN out
  ELSE flattenEntries(entries, i + 1, prefix,
                      flatten(entries[i][2], JoinKey(prefix, entries[i][1]), out))

\* function flatten(obj, prefix = '', out = {})
flatten(obj, prefix, out) ==
  IF IsNullish(obj) THEN out
  ELSE IF IsArray(obj) THEN flattenItems(obj.a, 1, prefix, out)
  ELSE IF obj.t = "obj" THEN flattenEntries(obj.o, 1, prefix, out)
  ELSE FlatSet(out, prefix, obj)

\* const KEY_CANDIDATES = { id, time, lat, lon, alt }
KEY_CANDIDATES ==
  [id |-> <<"id", "balloon_id", "balloonId", "name", "serial", "imei", "device", "callsign">>,
   time |-> <<"t", "ts", "timestamp", "time", "datetime", "date", "observed", "recordedAt">>,
   lat |-> <<"lat", "latitude", "position.lat", "pos.lat", "coords.lat", "location.lat">>,
   lon |-> <<"lon", "lng", "longitude", "position.lon", "pos.lon", "coords.lon", "location.lon">>,
   alt |-> <<"alt", "altitude", "elev", "elevation", "height">>]

\* Object.keys(flat).find(kk => kk.toLowerCase() === k.toLowerCase())
RECURSIVE FindKeyIgnoringCase(_, _, _)
FindKeyIgnoringCase(flat, k, i) ==
  IF i > Len(flat) THEN 0
  ELSE IF ToLowerCase(flat[i][1]) = ToLowerCase(k) THEN i
  ELSE FindKeyIgnoringCase(flat, k, i + 1)

\* function findByKeys(flat, keys)
RECURSIVE findByKeysFrom(_, _, _)
findByKeysFrom(flat, keys, j) ==
  IF j > Len(keys) THEN Null
  ELSE IF ~IsNullish(FlatGet(flat, keys[j])) THEN FlatGet(flat, keys[j])
  ELSE LET hit == FindKeyIgnoringCase(flat, keys[j], 1) IN
       IF hit # 0 /\ flat[hit][1] # "" /\ ~IsNullish(flat[hit][2]) THEN flat[hit][2]
       ELSE findByKeysFrom(flat, keys, j + 1)

findByKeys(flat, keys) == findByKeysFrom(flat, keys, 1)

\* a ?? b
Coalesce(a, b) == IF IsNullish(a) THEN b ELSE a

\* The generic candidates of latLonFromGeo, tried in order from index j.
GeoCands == <<"coord", "coords", "coordinate", "coordinates", "position", "pos", "location">>

RECURSIVE latLonFromCands(_, _)
latLonFromCands(flat, j) ==
  IF j > Len(GeoCands) THEN Null
  ELSE LET v == FlatGet(flat, GeoCands[j])
           pairOk == /\ IsArray(v)
                     /\ Len(v.a) >= 2
                     /\ NumberIsFinite(ToNumber(v.a[1]))
                     /\ NumberIsFinite(ToNumber(v.a[2]))
           a == IF pairOk THEN ToNumber(v.a[1]) ELSE NaN
           b == IF pairOk THEN ToNumber(v.a[2]) ELSE NaN
           parts == IF v.t = "str" THEN SplitComma(v.s) ELSE <<>>
           sa == IF Len(parts) > 1 THEN StringToNumber(parts[1]) ELSE NaN
           sb == IF Len(parts) > 1 THEN StringToNumber(parts[2]) ELSE NaN
       IN IF pairOk /\ AbsAtMost(a, 90) /\ AbsAtMost(b, 180)
          THEN [t |-> "geo", lat |-> a, lon |-> b]
          ELSE IF pairOk /\ AbsAtMost(b, 90) /\ AbsAtMost(a, 180)
          THEN [t |-> "geo", lat |-> b, lon |-> a]
          ELSE IF Len(parts) > 1 /\ NumberIsFinite(sa) /\ NumberIsFinite(sb)
          THEN IF AbsAtMost(sa, 90)
               THEN [t |-> "geo", lat |-> sa, lon |-> sb]
               ELSE [t |-> "geo", lat |-> sb, lon |-> sa]
          ELSE latLonFromCands(flat, j + 1)

\* function latLonFromGeo(flat)
latLonFromGeo(flat) ==
  LET g == Coalesce(Coalesce(FlatGet(flat, "geometry.coordinates"),
                             FlatGet(flat, "geom.coordinates")),
                    FlatGet(flat, "coordinates"))
  IN IF /\ IsArray(g)
        /\ Len(g.a) >= 2
        /\ NumberIsFinite(ToNumber(g.a[1]))
        /\ NumberIsFinite(ToNumber(g.a[2]))
     THEN [t |-> "geo", lat |-> ToNumber(g.a[2]), lon |-> ToNumber(g.a[1])]
     ELSE latLonFromCands(flat, 1)

(***************************************************************************)
(* Time conversion                                                         *)
(***************************************************************************)
\* 1e12 ms in hours, rounded up: for a whole number n of hours,
\* n < 1e12 ms exactly when n < SecondsLimit.
SecondsLimit == 277778

\* The Date range, 8.64e15 ms = 2 400 000 000 h, in thousands of hours.
DateLimitKiloHours == 2400000

\* n < 1e12, for a finite n
BelowSecondsLimit(n) == IF n.t = "huge" THEN n.n < 0 ELSE n.n < SecondsLimit

\* n * 1000, for a finite n
Times1000(n) ==
  IF n.t = "huge" THEN n
  ELSE IF Abs(n.n) > DateLimitKiloHours THEN Huge(IF n.n < 0 THEN -1 ELSE 1)
  ELSE Num(n.n * 1000)

\* function toMs(tsLike)
toMs(tsLike) ==
  IF IsNullish(tsLike) THEN NaN
  ELSE LET n == ToNumber(tsLike) IN
       IF NumberIsFinite(n)
       THEN (IF BelowSecondsLimit(n) THEN Times1000(n) ELSE n)
       ELSE LET d == DateParse(ToStr(tsLike)) IN
            IF NumberIsFinite(d) THEN d ELSE NaN

\* new Date(ts).toISOString() returns (it throws a RangeError otherwise):
\* |ts| <= 8.64e15 ms.
ValidDate(ts) ==
  /\ ts.t = "num"
  /\ \/ Abs(ts.n) \div 1000 < DateLimitKiloHours
     \/ Abs(ts.n) \div 1000 = DateLimitKiloHours /\ Abs(ts.n) % 1000 = 0

(***************************************************************************)
(* Record Normalizer                                                       *)
(***************************************************************************)
\* What a normalizer does: returns a point, returns null, or throws.
PointResult(p) == [kind |-> "point", p |-> p]
NullResult == [kind |-> "null"]
ThrowResult == [kind |-> "throw"]

\* hour.toString().padStart(2,'0')
PadHour(hour) == (IF hour < 10 THEN "0" ELSE "") \o ToString(hour)

\* rec[i], 0-based
ElementAt(rec, i) == IF i < Len(rec.a) THEN rec.a[i + 1] ELSE Undefined

\* function normalizeTuple(rec, hour, idx), with Date.now() = now
normalizeTuple(rec, hour, idx, now) ==
  IF ~IsArray(rec) \/ Len(rec.a) < 2 THEN NullResult
  ELSE LET lat == ToNumber(ElementAt(rec, 0))
           lon == ToNumber(ElementAt(rec, 1))
           alt3 == ToNumber(ElementAt(rec, 2))
           alt == IF NumberIsFinite(alt3) THEN alt3 ELSE Null
           ts == Num(now - hour)
       IN IF ~NumberIsFinite(lat) \/ ~NumberIsFinite(lon) THEN NullResult
          ELSE IF AbsGreater(lat, 90) \/ AbsGreater(lon, 180) THEN NullResult
          ELSE IF ~ValidDate(ts) THEN ThrowResult
          ELSE PointResult([id |-> PadHour(hour) \o "-" \o ToString(idx),
                            ts |-> ts.n, lat |-> lat.n, lon |-> lon.n, alt |-> alt])

\* Object.keys(flat).find(k => /\b(time|timestamp|ts|datetime)\b/i.test(k))
RECURSIVE GuessTimeKey(_, _)
GuessTimeKey(flat, i) ==
  IF i > Len(flat) THEN "undefined"
  ELSE IF MatchesTimeWord(flat[i][1]) THEN flat[i][1]
  ELSE GuessTimeKey(flat, i + 1)

\* let alt = +findByKeys(flat, KEY_CANDIDATES.alt); if (!Number.isFinite(alt)) alt = null
altitudeOf(flat) ==
  LET alt == ToNumber(findByKeys(flat, KEY_CANDIDATES.alt)) IN
  IF ~NumberIsFinite(alt) THEN Null ELSE alt

\* function normalizeObject(rec)
normalizeObject(rec) ==
  IF ~Truthy(rec) \/ ~IsObjectLike(rec) THEN NullResult
  ELSE
  LET flat == flatten(rec, "", <<>>)
      id == Coalesce(findByKeys(flat, KEY_CANDIDATES.id), FlatGet(flat, "__key"))
      ts1 == toMs(findByKeys(flat, KEY_CANDIDATES.time))
      ts == IF ~NumberIsFinite(ts1)
            THEN toMs(FlatGet(flat, GuessTimeKey(flat, 1)))
            ELSE ts1
      lat1 == ToNumber(findByKeys(flat, KEY_CANDIDATES.lat))
      lon1 == ToNumber(findByKeys(flat, KEY_CANDIDATES.lon))
      useGeo == ~NumberIsFinite(lat1) \/ ~NumberIsFinite(lon1)
      geo == IF useGeo THEN latLonFromGeo(flat) ELSE Null
      lat == IF geo.t = "geo" THEN geo.lat ELSE lat1
      lon == IF geo.t = "geo" THEN geo.lon ELSE lon1
  IN IF IsNullish(id) THEN NullResult
     ELSE IF ~NumberIsFinite(ts) THEN NullResult
     ELSE IF ~NumberIsFinite(lat) \/ ~NumberIsFinite(lon) THEN NullResult
     ELSE IF AbsGreater(lat, 90) \/ AbsGreater(lon, 180) THEN NullResult
     ELSE IF ~ValidDate(ts) THEN ThrowResult
     ELSE PointResult([id |-> ToStr(id), ts |-> ts.n, lat |-> lat.n,
                       lon |-> lon.n, alt |-> altitudeOf(flat)])


(***************************************************************************)
(* dedup (Deduplicator/Sorter)                                             *)
(***************************************************************************)
\* Bound: longest argument of dedup explored.
MaxDedupLen == 3

\* Points handed to dedup: ids chosen so that an id may end in the digits
\* another timestamp starts with; lat tells two points of one key apart.
DedupIds == {"a", "a1"}
DedupTs == {2, 12}
DedupLats == {0, 1}
DedupPoints == [id : DedupIds, ts : DedupTs, lat : DedupLats]

\* A mutation of pointKey: the template without its ':' separator.
pointKeyNoSeparator(p) == p.id \o ToString(p.ts)

\* const k = `${p.id}:${p.ts}`
pointKey(p) == p.id \o ":" \o ToString(p.ts)

\* for (const p of points) { if (!seen.has(k)) { seen.add(k); out.push(p) } }
RECURSIVE dedupLoop(_, _, _, _)
dedupLoop(points, i, seen, out) ==
  IF i > Len(points) THEN out
  ELSE LET k == pointKey(points[i]) IN
       IF k \notin seen
       THEN dedupLoop(points, i + 1, seen \cup {k}, Append(out, points[i]))
       ELSE dedupLoop(points, i + 1, seen, out)

\* (a,b) => a.ts - b.ts
compareTs(a, b) == a.ts - b.ts

\* Array.prototype.sort is stable (ECMAScript 2019, node 22): an element is
\* placed after every element that does not compare greater than it.
RECURSIVE insertStable(_, _, _)
insertStable(sorted, p, j) ==
  IF j = 0 \/ compareTs(sorted[j], p) <= 0
  THEN SubSeq(sorted, 1, j) \o <<p>> \o SubSeq(sorted, j + 1, Len(sorted))
  ELSE insertStable(sorted, p, j - 1)

RECURSIVE sortStable(_, _, _)
sortStable(arr, i, acc) ==
  IF i > Len(arr) THEN acc
  ELSE sortStable(arr, i + 1, insertStable(acc, arr[i], Len(acc)))

\* function dedup(points)
dedup(points) == sortStable(dedupLoop(points, 1, {}, <<>>), 1, <<>>)

DedupInit ==
  /\ dIn \in SeqsUpTo(DedupPoints, MaxDedupLen)
  /\ dOut = <<>>
  /\ dPc = "ready"

DedupIdle ==
  /\ dIn = <<>>
  /\ dOut = <<>>
  /\ dPc = "idle"

\* One call of dedup on the drawn argument.
DedupCall ==
  /\ dPc = "ready"
  /\ dOut' = dedup(dIn)
  /\ dPc' = "done"
  /\ UNCHANGED dIn
  /\ UNCHANGED <<enrichVars, cacheVars, normVars, fetchVars>>

(***************************************************************************)
(* C3: the reference result of dedupeAndSort                               *)
(***************************************************************************)
\* Indices of P that are the first occurrence of their (id, timestamp) pair.
FirstOccurrences(P) ==
  {i \in 1..Len(P) :
     \A j \in 1..(i - 1) : ~(P[j].id = P[i].id /\ P[j].ts = P[i].ts)}

\* The kept indices ordered by timestamp, ties by input position.
RECURSIVE OrderedByTsThenIndex(_, _)
OrderedByTsThenIndex(P, K) ==
  IF K = {} THEN <<>>
  ELSE LET m == CHOOSE i \in K :
                  \A j \in K : P[i].ts < P[j].ts \/ (P[i].ts = P[j].ts /\ i <= j)
       IN <<P[m]>> \o OrderedByTsThenIndex(P, K \ {m})

ReferenceDedupeAndSort(P) == OrderedByTsThenIndex(P, FirstOccurrences(P))

\* C3: for every point sequence P, dedup(P) is the reference result (first
\* occurrence of each (id, timestamp) pair kept, pairs differing in id or in
\* timestamp never collapsed, ascending by timestamp, ties in input order);
\* the output is non-decreasing in timestamp and no two output points share
\* both id and timestamp.
C3_DedupMatchesReference ==
  dPc = "done" =>
    /\ dOut = ReferenceDedupeAndSort(dIn)
    /\ \A i \in 1..(Len(dOut) - 1) : dOut[i].ts <= dOut[i + 1].ts
    /\ \A i, j \in 1..Len(dOut) :
         (i # j) => ~(dOut[i].id = dOut[j].id /\ dOut[i].ts = dOut[j].ts)

\* Witness: an argument holding a duplicate key, a timestamp tie between two
\* ids and an inversion has been deduplicated and sorted.
C3_Witness ==
  /\ dPc = "done"
  /\ Len(dIn) = 3
  /\ Len(dOut) = 2
  /\ dIn[1].ts > dIn[2].ts
  /\ dIn[3].id = dIn[1].id /\ dIn[3].ts = dIn[1].ts /\ dIn[3].lat # dIn[1].lat

DedupNext == DedupCall

(***************************************************************************)
(* enrich (Enrichment Stage)                                               *)
(***************************************************************************)
\* Bound standing for the source's BATCH = 25: the batch size explored.
BATCH == 2

\* Bound: most points handed to one enrich pass.
MaxEnrichPoints == 4

\* {...p, key: v}
Spread(p, key, v) == (key :> v) @@ p

\* What the services answer: an error (network, timeout, non-2xx), a body
\* without the wanted part, or a body with it.
LookupOutcomes == {"fail", "empty", "ok"}

\* data.current of the weather service for the point's coordinates
WindData(p) == [wind_speed_10m |-> p.lat, wind_direction_10m |-> p.lon]

\* the pm25 measurement of the air-quality service near the point
AirData(p) == [pm25 |-> p.lat, unit |-> "ug/m3", lastUpdated |-> p.lon]

\* async function withWind(p): try { ... data?.current ?? null } catch { null }
withWind(p, outcome) ==
  IF outcome = "ok" THEN Spread(p, "wind", WindData(p))
  ELSE Spread(p, "wind", Null)

\* A mutation of withAir: the air result is attached to a bare copy of the
\* coordinates instead of to the value withWind returned.
withAirLosesWind(p, outcome) ==
  IF outcome = "ok"
  THEN [id |-> p.id, lat |-> p.lat, lon |-> p.lon, air |-> AirData(p)]
  ELSE [id |-> p.id, lat |-> p.lat, lon |-> p.lon, air |-> Null]

\* async function withAir(p): try { ... m ? {...} : null } catch { null }
withAir(p, outcome) ==
  IF outcome = "ok" THEN Spread(p, "air", AirData(p))
  ELSE Spread(p, "air", Null)

\* A mutation of sliceBatch: points.slice(i) with no end index.
sliceToEnd(points, i) == SubSeq(points, i + 1, Len(points))

\* points.slice(i, i + BATCH)
sliceBatch(points, i) == SubSeq(points, i + 1, Min(i + BATCH, Len(points)))

EnrichInit ==
  /\ \E n \in 0..MaxEnrichPoints :
       ePoints = [k \in 1..n |-> [id |-> k, lat |-> k, lon |-> 0 - k]]
  /\ ePc = "ready"
  /\ eI = 0
  /\ eBatch = <<>>
  /\ eTask = <<>>
  /\ eMid = <<>>
  /\ eEnriched = <<>>
  /\ eOut = <<>>
  /\ eStarted = {}
  /\ eWindResp = [k \in 1..Len(ePoints) |-> "none"]
  /\ eAirResp = [k \in 1..Len(ePoints) |-> "none"]

EnrichIdle ==
  /\ ePoints = <<>>
  /\ ePc = "idle"
  /\ eI = 0
  /\ eBatch = <<>>
  /\ eTask = <<>>
  /\ eMid = <<>>
  /\ eEnriched = <<>>
  /\ eOut = <<>>
  /\ eStarted = {}
  /\ eWindResp = <<>>
  /\ eAirResp = <<>>

\* The loop head at index i: either the next batch is sliced and withWind is
\* called for each of its points (batch.map runs synchronously up to each
\* task's first await), or the loop ends and out is returned.
EnrichLoopFrom(i, out) ==
  /\ eI' = i
  /\ eOut' = out
  /\ IF i < Len(ePoints)
     THEN LET batch == sliceBatch(ePoints, i) IN
          /\ eBatch' = batch
          /\ eTask' = [j \in 1..Len(batch) |-> "wind"]
          /\ eMid' = [j \in 1..Len(batch) |-> Null]
          /\ eEnriched' = [j \in 1..Len(batch) |-> Null]
          /\ eStarted' = eStarted \cup {i + j : j \in 1..Len(batch)}
          /\ ePc' = "awaiting"
     ELSE /\ eBatch' = <<>>
          /\ eTask' = <<>>
          /\ eMid' = <<>>
          /\ eEnriched' = <<>>
          /\ eStarted' = eStarted
          /\ ePc' = "done"

\* enrich(points) is called: const out = [], i = 0, first loop test.
EnrichCall ==
  /\ ePc = "ready"
  /\ EnrichLoopFrom(0, <<>>)
  /\ UNCHANGED <<ePoints, eWindResp, eAirResp>>
  /\ UNCHANGED <<dedupVars, cacheVars, normVars, fetchVars>>

\* The wind request of batch position j settles; withWind returns and the
\* same task calls withAir on the returned value.
WindSettle(j, outcome) ==
  /\ ePc = "awaiting"
  /\ j \in 1..Len(eTask)
  /\ eTask[j] = "wind"
  /\ eMid' = [eMid EXCEPT ![j] = withWind(eBatch[j], outcome)]
  /\ eTask' = [eTask EXCEPT ![j] = "air"]
  /\ eWindResp' = [eWindResp EXCEPT ![eI + j] = outcome]
  /\ UNCHANGED <<ePoints, ePc, eI, eBatch, eEnriched, eOut, eStarted, eAirResp>>
  /\ UNCHANGED <<dedupVars, cacheVars, normVars, fetchVars>>

\* The air request of batch position j settles; the task's promise fulfils.
AirSettle(j, outcome) ==
  /\ ePc = "awaiting"
  /\ j \in 1..Len(eTask)
  /\ eTask[j] = "air"
  /\ eEnriched' = [eEnriched EXCEPT ![j] = withAir(eMid[j], outcome)]
  /\ eTask' = [eTask EXCEPT ![j] = "done"]
  /\ eAirResp' = [eAirResp EXCEPT ![eI + j] = outcome]
  /\ UNCHANGED <<ePoints, ePc, eI, eBatch, eMid, eOut, eStarted, eWindResp>>
  /\ UNCHANGED <<dedupVars, cacheVars, normVars, fetchVars>>

\* Promise.all fulfils once every task of the batch has: out.push(...enriched),
\* i += BATCH, and the loop head again.
BatchResume ==
  /\ ePc = "awaiting"
  /\ \A j \in 1..Len(eTask) : eTask[j] = "done"
  /\ EnrichLoopFrom(eI + BATCH, eOut \o eEnriched)
  /\ UNCHANGED <<ePoints, eWindResp, eAirResp>>
  /\ UNCHANGED <<dedupVars, cacheVars, normVars, fetchVars>>

EnrichNext ==
  \/ EnrichCall
  \/ \E j \in 1..BATCH + 1, outcome \in LookupOutcomes : WindSettle(j, outcome)
  \/ \E j \in 1..BATCH + 1, outcome \in LookupOutcomes : AirSettle(j, outcome)
  \/ BatchResume

(***************************************************************************)
(* C8, C9: the enrichment pass                                             *)
(***************************************************************************)
\* The point enrich must return for input point p, given what the two
\* services answered for it.
ExpectedEnriched(p, windOutcome, airOutcome) ==
  [id |-> p.id, lat |-> p.lat, lon |-> p.lon,
   wind |-> IF windOutcome = "ok" THEN WindData(p) ELSE Null,
   air |-> IF airOutcome = "ok" THEN AirData(p) ELSE Null]

\* C8: enrich returns exactly one output point per input point, in input
\* order, each its input point plus a wind and an air field; a failed wind (or
\* air) lookup nulls only that field of that point, the point's other lookup
\* was still made, the other points are as their own lookups answered, and
\* the input points are as they were.
C8_EnrichPointwise ==
  ePc = "done" =>
    /\ Len(eOut) = Len(ePoints)
    /\ \A k \in 1..Len(ePoints) :
         /\ eWindResp[k] # "none"
         /\ eAirResp[k] # "none"
         /\ eOut[k] = ExpectedEnriched(ePoints[k], eWindResp[k], eAirResp[k])
         /\ DOMAIN ePoints[k] = {"id", "lat", "lon"}

\* Witness: a pass over two batches has returned; the wind lookup of one
\* point failed and its air lookup answered, another point's lookups both
\* answered.
C8_Witness ==
  /\ ePc = "done"
  /\ Len(ePoints) > BATCH
  /\ \E k, m \in 1..Len(ePoints) :
       /\ k # m
       /\ eWindResp[k] = "fail" /\ eAirResp[k] = "ok"
       /\ eOut[k].wind = Null /\ eOut[k].air # Null
       /\ eWindResp[m] = "ok" /\ eOut[m].wind # Null

\* The batch a point index belongs to.
BatchOf(k) == (k - 1) \div BATCH

\* Indices with a lookup outstanding.
Outstanding == {eI + j : j \in {x \in 1..Len(eTask) : eTask[x] # "done"}}

\* Indices all of whose lookups have settled.
Settled == {k \in 1..Len(ePoints) : eWindResp[k] # "none" /\ eAirResp[k] # "none"}

\* C9: within one pass no lookup of a point of a later batch has been started
\* unless every lookup of every point of each earlier batch has settled; so
\* at most BATCH points have a lookup outstanding, and at most 2*BATCH calls.
C9_BatchesSequential ==
  /\ \A k \in eStarted : \A m \in 1..Len(ePoints) :
       BatchOf(m) < BatchOf(k) => m \in Settled
  /\ Cardinality(eStarted \ Settled) <= BATCH
  /\ Cardinality(Outstanding) <= BATCH
  /\ Cardinality(Outstanding) <= 2 * BATCH

\* Witness: the second batch has lookups outstanding.
C9_Witness ==
  /\ ePc = "awaiting"
  /\ eI = BATCH
  /\ Outstanding # {}
  /\ \A m \in 1..BATCH : m \in Settled

(***************************************************************************)
(* The cache, warm() and GET /api/data                                     *)
(***************************************************************************)
\* Bound standing for the source's CACHE_MS = 5 * 60 * 1000, in clock ticks.
CACHE_MS == 2

\* Bound: the clock ticks explored after start-up.
MaxTicks == 2

\* Bound: warm cycles explored (the one at start-up and the timer's).
NumWarm == 2

\* Bound: requests to /api/data explored.
NumReq == 1

\* Date.now() when the module loads: later than the time 0 of the initial
\* cache entry.
StartClock == CACHE_MS + 1

Warms == 1..NumWarm
Reqs == (NumWarm + 1)..(NumWarm + NumReq)
Jobs == Warms \cup Reqs

\* cache.points = null
NoPoints == [by |-> 0, enriched |-> FALSE]

\* The points one run of fetchWindborne24h (and enrich) returned to job p.
PointsOf(p, isEnriched) == [by |-> p, enriched |-> isEnriched]

\* let cache = { time: 0, points: null }
InitialCache == [time |-> 0, points |-> NoPoints]

\* A job that has not started or has returned: no locals.
NoJob(pc) == [pc |-> pc, time |-> 0, debug |-> FALSE, noEnrich |-> FALSE]

\* A mutation of replaceCache: the entry is updated in place, points only.
replacePointsInPlace(old, entry) == [old EXCEPT !.points = entry.points]

\* cache = { time: ..., points: ... }: the binding is set to a new object.
replaceCache(old, entry) == entry

\* The state after the module has loaded: warm() has run up to the await of
\* its fetchWindborne24h call and setInterval is armed.
CacheInit ==
  /\ clock = StartClock
  /\ enableEnrich \in BOOLEAN
  /\ cache = InitialCache
  /\ nextWarmAt = StartClock + CACHE_MS
  /\ job = [p \in Jobs |-> IF p = 1 THEN NoJob("fetching") ELSE NoJob("unborn")]
  /\ written = [p \in Jobs |-> InitialCache]

CacheIdle ==
  /\ clock = 0
  /\ enableEnrich = FALSE
  /\ cache = InitialCache
  /\ nextWarmAt = 0
  /\ job = <<>>
  /\ written = <<>>

\* Time passes.
Tick ==
  /\ clock < StartClock + MaxTicks
  /\ clock' = clock + 1
  /\ UNCHANGED <<enableEnrich, cache, nextWarmAt, job, written>>
  /\ UNCHANGED <<dedupVars, enrichVars, normVars, fetchVars>>

\* setInterval(warm, CACHE_MS) fires: warm() runs up to its first await.
WarmFire(w) ==
  /\ w \in Warms
  /\ job[w].pc = "unborn"
  /\ \A v \in Warms : v < w => job[v].pc # "unborn"
  /\ clock >= nextWarmAt
  /\ nextWarmAt' = nextWarmAt + CACHE_MS
  /\ job' = [job EXCEPT ![w].pc = "fetching"]
  /\ UNCHANGED <<clock, enableEnrich, cache, written>>
  /\ UNCHANGED <<dedupVars, enrichVars, normVars, fetchVars>>

\* warm: fetchWindborne24h(false) rejects; catch { /* ignore */ }.
WarmFetchRejected(w) ==
  /\ w \in Warms
  /\ job[w].pc = "fetching"
  /\ job' = [job EXCEPT ![w] = NoJob("failed")]
  /\ UNCHANGED <<clock, enableEnrich, cache, nextWarmAt, written>>
  /\ UNCHANGED <<dedupVars, enrichVars, normVars, fetchVars>>

\* warm: fetchWindborne24h(false) fulfils. With enrichment the object literal
\* evaluates time: Date.now() and then awaits enrich(basePoints); without, the
\* cache is replaced at once.
WarmFetchFulfilled(w) ==
  /\ w \in Warms
  /\ job[w].pc = "fetching"
  /\ IF enableEnrich
     THEN /\ job' = [job EXCEPT ![w].pc = "enriching", ![w].time = clock]
          /\ UNCHANGED <<cache, written>>
     ELSE LET entry == [time |-> clock, points |-> PointsOf(w, FALSE)] IN
          /\ job' = [job EXCEPT ![w] = NoJob("done")]
          /\ cache' = replaceCache(cache, entry)
          /\ written' = [written EXCEPT ![w] = entry]
  /\ UNCHANGED <<clock, enableEnrich, nextWarmAt>>
  /\ UNCHANGED <<dedupVars, enrichVars, normVars, fetchVars>>

\* warm: enrich(basePoints) fulfils and the assignment to cache completes.
WarmEnrichFulfilled(w) ==
  /\ w \in Warms
  /\ job[w].pc = "enriching"
  /\ LET entry == [time |-> job[w].time, points |-> PointsOf(w, TRUE)] IN
       /\ cache' = replaceCache(cache, entry)
       /\ written' = [written EXCEPT ![w] = entry]
  /\ job' = [job EXCEPT ![w] = NoJob("done")]
  /\ UNCHANGED <<clock, enableEnrich, nextWarmAt>>
  /\ UNCHANGED <<dedupVars, enrichVars, normVars, fetchVars>>

\* if (!wantDebug && !noEnrich && ENABLE_ENRICH && cache.points && (now - cache.time < CACHE_MS))
servesFromCache(debug, noEnrich, now) ==
  /\ ~debug
  /\ ~noEnrich
  /\ enableEnrich
  /\ cache.points # NoPoints
  /\ now - cache.time < CACHE_MS

\* GET /api/data arrives: now = Date.now(), the cache test, and either the
\* cached answer or the call of fetchWindborne24h.
Request(r, debug, noEnrich) ==
  /\ r \in Reqs
  /\ job[r].pc = "unborn"
  /\ \A q \in Reqs : q < r => job[q].pc # "unborn"
  /\ IF servesFromCache(debug, noEnrich, clock)
     THEN job' = [job EXCEPT ![r] = NoJob("cached")]
     ELSE job' = [job EXCEPT ![r] = [pc |-> "fetching", time |-> clock,
                                     debug |-> debug, noEnrich |-> noEnrich]]
  /\ UNCHANGED <<clock, enableEnrich, cache, nextWarmAt, written>>
  /\ UNCHANGED <<dedupVars, enrichVars, normVars, fetchVars>>

\* /api/data: fetchWindborne24h rejects; catch (e) { res.status(500) }.
RequestFetchRejected(r) ==
  /\ r \in Reqs
  /\ job[r].pc = "fetching"
  /\ job' = [job EXCEPT ![r] = NoJob("failed")]
  /\ UNCHANGED <<clock, enableEnrich, cache, nextWarmAt, written>>
  /\ UNCHANGED <<dedupVars, enrichVars, normVars, fetchVars>>

\* /api/data: fetchWindborne24h fulfils; enrich is awaited when enabled and
\* wanted, otherwise the handler answers (the cache is written only after an
\* enrichment).
RequestFetchFulfilled(r) ==
  /\ r \in Reqs
  /\ job[r].pc = "fetching"
  /\ IF ~job[r].noEnrich /\ enableEnrich
     THEN job' = [job EXCEPT ![r].pc = "enriching"]
     ELSE job' = [job EXCEPT ![r] = NoJob("done")]
  /\ UNCHANGED <<clock, enableEnrich, cache, nextWarmAt, written>>
  /\ UNCHANGED <<dedupVars, enrichVars, normVars, fetchVars>>

\* /api/data: enrich fulfils; if (!wantDebug && !noEnrich && ENABLE_ENRICH)
\* cache = { time: now, points: finalPoints }; then the answer.
RequestEnrichFulfilled(r) ==
  /\ r \in Reqs
  /\ job[r].pc = "enriching"
  /\ IF ~job[r].debug /\ ~job[r].noEnrich /\ enableEnrich
     THEN LET entry == [time |-> job[r].time, points |-> PointsOf(r, TRUE)] IN
          /\ cache' = replaceCache(cache, entry)
          /\ written' = [written EXCEPT ![r] = entry]
     ELSE UNCHANGED <<cache, written>>
  /\ job' = [job EXCEPT ![r] = NoJob("done")]
  /\ UNCHANGED <<clock, enableEnrich, nextWarmAt>>
  /\ UNCHANGED <<dedupVars, enrichVars, normVars, fetchVars>>

CacheNext ==
  \/ Tick
  \/ \E w \in Warms : WarmFire(w)
  \/ \E w \in Warms : WarmFetchRejected(w)
  \/ \E w \in Warms : WarmFetchFulfilled(w)
  \/ \E w \in Warms : WarmEnrichFulfilled(w)
  \/ \E r \in Reqs, debug \in BOOLEAN, noEnrich \in BOOLEAN : Request(r, debug, noEnrich)
  \/ \E r \in Reqs : RequestFetchRejected(r)
  \/ \E r \in Reqs : RequestFetchFulfilled(r)
  \/ \E r \in Reqs : RequestEnrichFulfilled(r)

(***************************************************************************)
(* C7, C10: the cache entry                                                *)
(***************************************************************************)
\* The cache entry is the initial one, or the pair one job stored: that job's
\* fetchedAtMs with that job's points.
CacheEntryWhole ==
  \/ cache = InitialCache
  \/ /\ cache.points.by \in Jobs
     /\ cache = written[cache.points.by]

\* A warm cycle that raised has written nothing.
FailedWarmWroteNothing ==
  \A w \in Warms : job[w].pc = "failed" => written[w] = InitialCache

\* The step in which a warm cycle raises leaves the cache entry as it was.
WarmFailureStepKeepsCache ==
  (\E w \in Warms : job[w].pc # "failed" /\ job'[w].pc = "failed") => cache' = cache

\* C7: a warm cycle that raises leaves the cache entry as it was, and in
\* every reachable state the entry is the initial empty one or a complete
\* {fetchedAtMs, points} pair written by one replacement, never the
\* fetchedAtMs of one cycle with the points of another.
C7_CacheNeverPartial ==
  /\ [](CacheEntryWhole /\ FailedWarmWroteNothing)
  /\ [][WarmFailureStepKeepsCache]_vars

\* Witness: a warm cycle has raised after another job replaced the entry, and
\* the entry is still that job's pair.
C7_Witness ==
  /\ \E w \in Warms : job[w].pc = "failed"
  /\ cache # InitialCache
  /\ \E p \in Jobs : cache = written[p] /\ cache.points.by = p

\* C10: with enrichment enabled every replacement of the cache entry stores a
\* fetchedAtMs not older than that of the entry it replaces.
C10_FetchedAtNeverDecreases ==
  [][enableEnrich => cache'.time >= cache.time]_vars

(***************************************************************************)
(* normalizeObject on one record                                           *)
(***************************************************************************)
\* The parts an explored object record is put together from: how it names
\* its id, its time, its coordinates and its altitude.
IdParts ==
  { <<>>,
    << <<"id", Str("b7")>> >>,
    << <<"ID", Num(12)>> >>,
    << <<"__key", Str("k1")>> >> }

TimeParts ==
  { <<>>,
    << <<"t", Num(472)>> >>,
    << <<"TimeStamp", Num(472222)>> >>,
    << <<"time", Str("2023-11-14T22:00:00Z")>> >>,
    << <<"t", Str("abc")>>, <<"meta", Obj(<< <<"time", Num(472)>> >>)>> >>,
    << <<"ts", Num(0 - 2400001)>> >>,
    << <<"t", Huge(1)>> >> }

CoordParts ==
  { <<>>,
    << <<"lat", Num(10)>>, <<"lon", Num(0 - 20)>> >>,
    << <<"LAT", Str("12")>>, <<"lng", Num(50)>> >>,
    << <<"lat", Num(91)>>, <<"lon", Num(0)>> >>,
    << <<"position", Obj(<< <<"lat", Num(10)>>, <<"lon", Num(50)>> >>)>> >>,
    << <<"geometry", Obj(<< <<"coordinates", Arr(<<Num(10), Num(50)>>)>> >>)>> >>,
    << <<"lat", Str("abc")>>, <<"coords", Str("100,50")>> >>,
    << <<"lat", Str("abc")>>,
       <<"geometry", Obj(<< <<"coordinates", Arr(<<Num(10), Num(50)>>)>> >>)>> >> }

AltParts ==
  { <<>>,
    << <<"alt", Num(1500)>> >>,
    << <<"alt", Num(0)>> >>,
    << <<"Elevation", Num(7)>> >>,
    << <<"altitude", Str("abc")>> >>,
    << <<"height", Bool(TRUE)>> >> }

ObjectRecords ==
  {Obj(i \o t \o c \o a) : i \in IdParts, t \in TimeParts, c \in CoordParts, a \in AltParts}

NormInit ==
  /\ nRec \in ObjectRecords
  /\ nOut = NullResult
  /\ nPc = "ready"

NormIdle ==
  /\ nRec = Null
  /\ nOut = NullResult
  /\ nPc = "idle"

\* One call of normalizeObject on the drawn record.
NormalizeCall ==
  /\ nPc = "ready"
  /\ nOut' = normalizeObject(nRec)
  /\ nPc' = "done"
  /\ UNCHANGED nRec
  /\ UNCHANGED <<dedupVars, enrichVars, cacheVars, fetchVars>>

NormNext == NormalizeCall

(***************************************************************************)
(* C5, C6: normalizeObject                                                 *)
(***************************************************************************)
\* The record has a top-level key that is an alias in keys, in any case.
HasAliasKey(rec, keys) ==
  \E i \in 1..Len(rec.o) : \E j \in 1..Len(keys) :
    ToLowerCase(rec.o[i][1]) = ToLowerCase(keys[j])

\* The value of the record's top-level key k (Undefined when absent).
Field(rec, k) == FlatGet(rec.o, k)

\* The record gives its coordinates only as geometry.coordinates = [lon, lat],
\* both finite and in range, and names an id and a time that resolve.
GeometryOnlyRecord(rec) ==
  /\ HasAliasKey(rec, KEY_CANDIDATES.id)
  /\ HasAliasKey(rec, KEY_CANDIDATES.time)
  /\ NumberIsFinite(toMs(findByKeys(flatten(rec, "", <<>>), KEY_CANDIDATES.time)))
  /\ ValidDate(toMs(findByKeys(flatten(rec, "", <<>>), KEY_CANDIDATES.time)))
  /\ ~HasAliasKey(rec, KEY_CANDIDATES.lat)
  /\ ~HasAliasKey(rec, KEY_CANDIDATES.lon)
  /\ Field(rec, "position") = Undefined
  /\ Field(rec, "coords") = Undefined
  /\ Field(rec, "geometry").t = "obj"
  /\ LET g == Field(Field(rec, "geometry"), "coordinates") IN
       /\ IsArray(g)
       /\ Len(g.a) = 2
       /\ g.a[1].t = "num" /\ Abs(g.a[1].n) <= 180
       /\ g.a[2].t = "num" /\ Abs(g.a[2].n) <= 90

\* C5: an object record with a resolvable id and time and no latitude or
\* longitude alias key, whose coordinates are given only as
\* geometry.coordinates = [lon, lat], is normalised to a Point with
\* latitude = lat and longitude = lon ([10, 50] gives latitude 50,
\* longitude 10).
C5_GeometryFallback ==
  (nPc = "done" /\ GeometryOnlyRecord(nRec)) =>
    /\ nOut.kind = "point"
    /\ nOut.p.lat = Field(Field(nRec, "geometry"), "coordinates").a[2].n
    /\ nOut.p.lon = Field(Field(nRec, "geometry"), "coordinates").a[1].n

\* The record has no altitude alias key, or only ones whose value is not a
\* finite number.
NoFiniteAltitude(rec) ==
  \A i \in 1..Len(rec.o) :
    (\E j \in 1..Len(KEY_CANDIDATES.alt) :
        ToLowerCase(rec.o[i][1]) = ToLowerCase(KEY_CANDIDATES.alt[j]))
      => ~NumberIsFinite(rec.o[i][2])

\* C6: a Point emitted for an object record that has no altitude alias key,
\* or only one whose value is not a finite number, has altitude null, never 0.
C6_AbsentAltitudeStaysAbsent ==
  (nPc = "done" /\ nOut.kind = "point" /\ NoFiniteAltitude(nRec)) =>
    nOut.p.alt = Null

(***************************************************************************)
(* Body Explode                                                            *)
(***************************************************************************)
\* A response body is text. JsonBody(v) is the JSON text of v; TextBody(ls)
\* is text that is no JSON value, whose non-blank lines are the bodies ls.
JsonBody(v) == [valid |-> TRUE, value |-> v, lines |-> <<>>]
TextBody(ls) == [valid |-> FALSE, value |-> Null, lines |-> ls]

\* JSON.parse of a string value (null when it throws), for the strings explored.
ParseStringValue(x) ==
  CASE x = "12" -> Num(12)
    [] x = "50" -> Num(50)
    [] x = "10" -> Num(10)
    [] x = "100" -> Num(100)
    [] OTHER -> Null

\* safeJSON(item), for a value inside a parsed body
safeJSONValue(item) == IF item.t = "str" THEN ParseStringValue(item.s) ELSE item

\* safeJSON(body), for a body text
safeJSONBody(body) == IF body.valid THEN body.value ELSE Null

\* The characters of a string value, for the strings explored.
StringChars(x) ==
  CASE x = "abc" -> <<"a", "b", "c">>
    [] x = "12" -> <<"1", "2">>
    [] OTHER -> <<>>

\* The own enumerable properties ...v copies.
SpreadEntries(v) ==
  CASE v.t = "obj" -> v.o
    [] v.t = "arr" -> [i \in 1..Len(v.a) |-> <<ToString(i - 1), v.a[i]>>]
    [] v.t = "str" -> [i \in 1..Len(StringChars(v.s)) |->
                         <<ToString(i - 1), Str(StringChars(v.s)[i])>>]
    [] OTHER -> <<>>

RECURSIVE SetAll(_, _, _)
SetAll(entries, more, i) ==
  IF i > Len(more) THEN entries
  ELSE SetAll(FlatSet(entries, more[i][1], more[i][2]), more, i + 1)

\* { __key: k, ...v }
Keyed(k, v) == Obj(SetAll(<< <<"__key", Str(k)>> >>, SpreadEntries(v), 1))

\* const push = r => { if (r != null) out.push(r) }
push(out, r) == IF IsNullish(r) THEN out ELSE Append(out, r)

RECURSIVE pushAll(_, _, _)
pushAll(out, items, i) ==
  IF i > Len(items) THEN out ELSE pushAll(push(out, items[i]), items, i + 1)

\* parsed[k]
ObjGet(obj, k) == FlatGet(obj.o, k)

\* ['data','items','records','points','rows'].find(k => Array.isArray(parsed[k]))
WrapperKeys == <<"data", "items", "records", "points", "rows">>

RECURSIVE FindWrapperKey(_, _)
FindWrapperKey(parsed, j) ==
  IF j > Len(WrapperKeys) THEN 0
  ELSE IF IsArray(ObjGet(parsed, WrapperKeys[j])) THEN j
  ELSE FindWrapperKey(parsed, j + 1)

\* v.forEach(item => push({ __key: k, ...(safeJSON(item) ?? item) }))
RECURSIVE pushKeyedItems(_, _, _, _)
pushKeyedItems(out, k, items, i) ==
  IF i > Len(items) THEN out
  ELSE pushKeyedItems(push(out, Keyed(k, Coalesce(safeJSONValue(items[i]), items[i]))),
                      k, items, i + 1)

\* for (const [k, v] of Object.entries(parsed)) { ... }
RECURSIVE pushKeyedEntries(_, _, _)
pushKeyedEntries(out, entries, i) ==
  IF i > Len(entries) THEN out
  ELSE LET k == entries[i][1]
           v == entries[i][2]
       IN pushKeyedEntries(
            IF IsArray(v) THEN pushKeyedItems(out, k, v.a, 1)
            ELSE IF v.t = "obj" THEN push(out, Keyed(k, v))
            ELSE out,
            entries, i + 1)

\* lines.forEach(line => { const p = safeJSON(line); if (p) push(p) })
RECURSIVE pushLines(_, _, _)
pushLines(out, lines, i) ==
  IF i > Len(lines) THEN out
  ELSE LET p == safeJSONBody(lines[i]) IN
       pushLines(IF Truthy(p) THEN push(out, p) ELSE out, lines, i + 1)

\* function explodeBodyToRecords(body)
explodeBodyToRecords(body) ==
  LET parsed == IF IsNullish(safeJSONBody(body)) THEN Str("") ELSE safeJSONBody(body) IN
  IF IsArray(parsed) THEN pushAll(<<>>, parsed.a, 1)
  ELSE IF parsed.t = "obj"
  THEN LET j == FindWrapperKey(parsed, 1) IN
       IF j # 0 THEN pushAll(<<>>, ObjGet(parsed, WrapperKeys[j]).a, 1)
       ELSE pushKeyedEntries(<<>>, parsed.o, 1)
  ELSE IF Len(body.lines) > 1 THEN pushLines(<<>>, body.lines, 1)
  ELSE <<>>

(***************************************************************************)
(* Source Fetcher                                                          *)
(***************************************************************************)
\* Bound standing for the source's 24 hourly files: the buckets explored.
NumBuckets == 3

Hours == 0..(NumBuckets - 1)

\* The body of items.forEach: a returned point is pushed, null is skipped, a
\* throw leaves the loop.
pushNormalized(acc, r) ==
  IF r.kind = "throw" THEN [acc EXCEPT !.threw = TRUE]
  ELSE IF r.kind = "point" THEN [acc EXCEPT !.points = Append(@, r.p)]
  ELSE acc

\* items.forEach(...): the normalizer's results for the items from index i on,
\* appended to points; a throw ends the loop.
RECURSIVE normalizeItems(_, _, _, _, _, _)
normalizeItems(items, i, tupleForm, hour, now, acc) ==
  IF i > Len(items) \/ acc.threw THEN acc
  ELSE normalizeItems(items, i + 1, tupleForm, hour, now,
         pushNormalized(acc,
           IF tupleForm THEN normalizeTuple(items[i], hour, i - 1, now)
           ELSE normalizeObject(items[i])))

\* The for loop over results, from bucket index i on.
RECURSIVE processResults(_, _, _, _)
processResults(results, i, now, acc) ==
  IF i >= NumBuckets \/ acc.threw THEN acc
  ELSE IF results[i].status # "fulfilled"
  THEN processResults(results, i + 1, now, [acc EXCEPT !.bad = @ + 1])
  ELSE LET items == explodeBodyToRecords(results[i].value)
           tupleForm == Len(items) > 0 /\ IsArray(items[1])
       IN processResults(results, i + 1, now,
            normalizeItems(items, 1, tupleForm, i, now,
              [acc EXCEPT !.ok = @ + 1, !.raw = @ + Len(items)]))

\* return debug ? { points: deduped, debug: {...} } : deduped, or the rejection
\* a throw in the loop causes
fetchReturn(acc, deduped) ==
  IF acc.threw THEN [status |-> "rejected"]
  ELSE [status |-> "fulfilled",
        debug |-> [files_ok |-> acc.ok, files_failed |-> acc.bad,
                   raw_records |-> acc.raw, normalized |-> Len(deduped),
                   unique_points |-> Len(deduped)],
        points |-> deduped]

\* The loop's results, then const deduped = dedup(points)
fetchDedup(acc) == fetchReturn(acc, dedup(acc.points))

\* async function fetchWindborne24h(debug = true), once allSettled fulfils
fetchWindborne24h(results, now) ==
  fetchDedup(processResults(results, 0, now,
    [raw |-> 0, ok |-> 0, bad |-> 0, points |-> <<>>, threw |-> FALSE]))

\* The bodies explored.
TupleBody ==
  JsonBody(Arr(<< Arr(<<Num(10), Num(0 - 20), Num(1500)>>), Arr(<<Num(200), Num(0)>>),
                  Arr(<<Num(5)>>), Arr(<<Num(11), Num(21)>>) >>))

TupleBodyWithNull == JsonBody(Arr(<< Null, Arr(<<Num(10), Num(20)>>) >>))

ObjectBody ==
  JsonBody(Arr(<< Obj(<< <<"id", Str("b7")>>, <<"t", Num(472)>>, <<"lat", Num(10)>>,
                         <<"lon", Num(0 - 20)>>, <<"alt", Num(1500)>> >>),
                  Obj(<< <<"id", Str("b7")>>, <<"t", Num(472)>>, <<"lat", Num(11)>>,
                         <<"lon", Num(0 - 20)>> >>),
                  Obj(<< <<"lat", Num(5)>> >>) >>))

HugeTimeBody ==
  JsonBody(Arr(<< Obj(<< <<"id", Str("b9")>>, <<"t", Num(0 - 2400001)>>,
                         <<"lat", Num(1)>>, <<"lon", Num(2)>> >>) >>))

KeyedBody ==
  JsonBody(Obj(<< <<"b3", Arr(<< Obj(<< <<"t", Num(470)>>, <<"lat", Num(1)>>,
                                        <<"lon", Num(2)>> >>),
                                 Str("abc") >>)>>,
                  <<"note", Str("x")>> >>))

NdjsonBody ==
  TextBody(<< JsonBody(Obj(<< <<"id", Str("n1")>>, <<"t", Num(471)>>,
                              <<"lat", Num(3)>>, <<"lon", Num(4)>> >>)),
              TextBody(<<>>),
              JsonBody(Num(0)) >>)

GarbageBody == TextBody(<< TextBody(<<>>) >>)

FetchBodies ==
  {TupleBody, TupleBodyWithNull, ObjectBody, HugeTimeBody, KeyedBody, NdjsonBody,
   GarbageBody}

\* Date.now() while the loop runs, in hours since the epoch.
FetchClocks == {472222}

Pending == [status |-> "pending"]

\* fetchWindborne24h(true) has been called: every get is under way.
FetchInit ==
  /\ fNow \in FetchClocks
  /\ fResults = [h \in Hours |-> Pending]
  /\ fPc = "awaiting"
  /\ fRet = [status |-> "none"]

FetchIdle ==
  /\ fNow = 0
  /\ fResults = <<>>
  /\ fPc = "idle"
  /\ fRet = [status |-> "none"]

\* The get of bucket h fulfils with a body.
GetFulfilled(h, body) ==
  /\ fPc = "awaiting"
  /\ fResults[h] = Pending
  /\ fResults' = [fResults EXCEPT ![h] = [status |-> "fulfilled", value |-> body]]
  /\ UNCHANGED <<fNow, fPc, fRet>>
  /\ UNCHANGED <<dedupVars, enrichVars, cacheVars, normVars>>

\* The get of bucket h rejects: network error, timeout or non-2xx.
GetRejected(h) ==
  /\ fPc = "awaiting"
  /\ fResults[h] = Pending
  /\ fResults' = [fResults EXCEPT ![h] = [status |-> "rejected"]]
  /\ UNCHANGED <<fNow, fPc, fRet>>
  /\ UNCHANGED <<dedupVars, enrichVars, cacheVars, normVars>>

\* Promise.allSettled fulfils once every get has settled; the loop, dedup and
\* the return (or the throw of a normalizer) follow without another await.
FetchResume ==
  /\ fPc = "awaiting"
  /\ \A h \in Hours : fResults[h] # Pending
  /\ fRet' = fetchWindborne24h(fResults, fNow)
  /\ fPc' = fRet'.status
  /\ UNCHANGED <<fNow, fResults>>
  /\ UNCHANGED <<dedupVars, enrichVars, cacheVars, normVars>>

FetchNext ==
  \/ \E h \in Hours, body \in FetchBodies : GetFulfilled(h, body)
  \/ \E h \in Hours : GetRejected(h)
  \/ FetchResume

(***************************************************************************)
(* C1, C2, C4: fetchWindborne24h                                           *)
(***************************************************************************)
\* The buckets whose get failed.
FailedBuckets == {h \in Hours : fResults[h].status = "rejected"}

\* The points the body of bucket h normalises to, taken on its own.
BucketPoints(h) ==
  LET items == explodeBodyToRecords(fResults[h].value) IN
  normalizeItems(items, 1, Len(items) > 0 /\ IsArray(items[1]), h, fNow,
                 [points |-> <<>>, threw |-> FALSE]).points

\* The points of the successful buckets from bucket h on, in bucket order.
RECURSIVE SuccessfulPointsFrom(_)
SuccessfulPointsFrom(h) ==
  IF h >= NumBuckets THEN <<>>
  ELSE (IF fResults[h].status = "fulfilled" THEN BucketPoints(h) ELSE <<>>)
       \o SuccessfulPointsFrom(h + 1)

\* What C1 says of a call that returned.
ReturnIsExact ==
  /\ \A h \in Hours : fResults[h] # Pending
  /\ fRet.points = ReferenceDedupeAndSort(SuccessfulPointsFrom(0))
  /\ fRet.debug.files_failed = Cardinality(FailedBuckets)
  /\ fRet.debug.files_ok = NumBuckets - Cardinality(FailedBuckets)

\* C1: whatever subset F of the bucket gets fails, fetchWindborne24h(true)
\* completes only after every get has settled, returns exactly the
\* deduplicated normalised points of the successful buckets, and reports
\* files_failed = |F| and files_ok = NumBuckets - |F|.
C1_PartialFailureIsolated ==
  /\ fPc # "awaiting" => \A h \in Hours : fResults[h] # Pending
  /\ (\A h \in Hours : fResults[h] # Pending) /\ fPc # "awaiting" =>
       fPc = "fulfilled" /\ ReturnIsExact

\* C1 for the calls that did return: holds.
ReturnedCallsAreExact == fPc = "fulfilled" => ReturnIsExact

\* C2: whatever the successfully retrieved bodies hold, Body Explode and the
\* normalizers never raise: fetchWindborne24h does not end by throwing.
C2_NormalizersNeverRaise == fPc # "rejected"

\* A body of tuples: a JSON array of arrays and nulls with an array in it.
TupleFormBody(body) ==
  /\ body.valid
  /\ IsArray(body.value)
  /\ \E i \in 1..Len(body.value.a) : IsArray(body.value.a[i])
  /\ \A i \in 1..Len(body.value.a) : IsArray(body.value.a[i]) \/ body.value.a[i] = Null

\* [lat, lon, alt?] with |lat| <= 90 and |lon| <= 180
ValidTuple(v) ==
  /\ IsArray(v)
  /\ Len(v.a) >= 2
  /\ v.a[1].t = "num" /\ Abs(v.a[1].n) <= 90
  /\ v.a[2].t = "num" /\ Abs(v.a[2].n) <= 180

\* The returned points.
ReturnedPoints == {fRet.points[k] : k \in 1..Len(fRet.points)}

\* C4: for a tuple-form body of bucket h, every valid tuple at index i of the
\* file yields a Point with id <2-digit h>-<i>, timestamp now - h hours, its
\* latitude and longitude, and its altitude when a finite third element is
\* there; an array that is no valid tuple yields no Point.
C4_TupleIdIsFileIndex ==
  fPc = "fulfilled" =>
    \A h \in Hours :
      (fResults[h].status = "fulfilled" /\ TupleFormBody(fResults[h].value)) =>
        \A i \in 1..Len(fResults[h].value.value.a) :
          LET v == fResults[h].value.value.a[i]
              id == PadHour(h) \o "-" \o ToString(i - 1)
          IN /\ ValidTuple(v) =>
                  \E p \in ReturnedPoints :
                    /\ p.id = id
                    /\ p.ts = fNow - h
                    /\ p.lat = v.a[1].n
                    /\ p.lon = v.a[2].n
                    /\ (Len(v.a) >= 3 /\ v.a[3].t = "num") => p.alt = v.a[3]
             /\ (IsArray(v) /\ ~ValidTuple(v)) =>
                  ~\E p \in ReturnedPoints : p.id = id

\* C4 with the index the code uses, the position among the non-null
\* elements of the file: holds.
NonNullBefore(items, i) == Cardinality({j \in 1..(i - 1) : items[j] # Null})

TupleIdIsPositionAmongNonNull ==
  fPc = "fulfilled" =>
    \A h \in Hours :
      (fResults[h].status = "fulfilled" /\ TupleFormBody(fResults[h].value)) =>
        \A i \in 1..Len(fResults[h].value.value.a) :
          LET v == fResults[h].value.value.a[i]
              id == PadHour(h) \o "-"
                      \o ToString(NonNullBefore(fResults[h].value.value.a, i))
          IN /\ ValidTuple(v) =>
                  \E p \in ReturnedPoints :
                    /\ p.id = id
                    /\ p.ts = fNow - h
                    /\ p.lat = v.a[1].n
                    /\ p.lon = v.a[2].n
                    /\ (Len(v.a) >= 3 /\ v.a[3].t = "num") => p.alt = v.a[3]
             /\ (IsArray(v) /\ ~ValidTuple(v)) =>
                  ~\E p \in ReturnedPoints : p.id = id

(***************************************************************************)
(* Specifications                                                          *)
(***************************************************************************)
InitDedup == DedupInit /\ EnrichIdle /\ CacheIdle /\ NormIdle /\ FetchIdle

InitEnrich == EnrichInit /\ DedupIdle /\ CacheIdle /\ NormIdle /\ FetchIdle

InitCache == CacheInit /\ DedupIdle /\ EnrichIdle /\ NormIdle /\ FetchIdle

InitNormalize == NormInit /\ DedupIdle /\ EnrichIdle /\ CacheIdle /\ FetchIdle

InitFetch == FetchInit /\ DedupIdle /\ EnrichIdle /\ CacheIdle /\ NormIdle

SpecDedup == InitDedup /\ [][DedupNext]_vars

SpecEnrich == InitEnrich /\ [][EnrichNext]_vars

SpecCache == InitCache /\ [][CacheNext]_vars

SpecNormalize == InitNormalize /\ [][NormNext]_vars

SpecFetch == InitFetch /\ [][FetchNext]_vars
====
